---- MODULE Spec2Model ----
(***************************************************************************)
(* Event registration, progress ledger and leaderboard of the fitness      *)
(* platform backend (FastAPI handlers over MongoDB collections).           *)
(*                                                                         *)
(* State: the users, events and progress collections.  One action per      *)
(* HTTP handler; a handler runs from its authentication dependency to its  *)
(* response.  lastOp records the last request and its response, snap the   *)
(* state a successful register started from.  The specifications named     *)
(* Concurrent... run requests one database round trip at a time (a         *)
(* coroutine is only suspended at an await); calls holds the requests in   *)
(* flight.                                                                 *)
(*                                                                         *)
(* Identifiers: Firebase subject ids (uid) are 1..NumUids, MongoDB         *)
(* ObjectIds are >= 100 (users 101.., events 201.., progress 301..); the   *)
(* two id spaces are disjoint, as a server-generated 24-hex ObjectId never *)
(* equals a Firebase uid.  0 is a malformed id.                             *)
(* None is <<>>, Some(x) is <<x>>.                                         *)
(***************************************************************************)
EXTENDS Integers, Sequences, FiniteSets, TLC

\* ---------------------------------------------------------------- bounds
NumUids == 2
MaxUsers == 2
MaxEvents == 1
NumBibs == 2
MaxProgress == 2
MaxPhotos == 1
NumCalls == 3

None == <<>>
Uids == 1..NumUids
\* The Authorization header of a request: none, or the bearer token of an
\* identity (the token of identity u is u).
Creds == {None} \cup {<<u>> : u \in Uids}
EventOids == {200 + i : i \in 1..MaxEvents}
EventIdInputs == {0} \cup EventOids
BibNumbers == 1..NumBibs
\* The target distance an event body declares (km)
TargetDistances == {<<10>>}

\* ------------------------------------------------------- status codes
HTTP_200_OK == 200
HTTP_201_CREATED == 201
HTTP_204_NO_CONTENT == 204
HTTP_400_BAD_REQUEST == 400
HTTP_401_UNAUTHORIZED == 401
HTTP_403_FORBIDDEN == 403
HTTP_404_NOT_FOUND == 404
HTTP_500_INTERNAL_SERVER_ERROR == 500

VARIABLES users, events, progress, photos, nextUser, nextEvent, nextProgress,
          nextPhoto, lastOp, snap, calls

vars == <<users, events, progress, photos, nextUser, nextEvent, nextProgress,
          nextPhoto, lastOp, snap, calls>>
db == <<users, events, progress>>
counters == <<nextUser, nextEvent, nextProgress, nextPhoto>>

\* ------------------------------------------------------------ helpers
Min(S) == CHOOSE x \in S : \A y \in S : x <= y
Range(s) == {s[i] : i \in 1..Len(s)}

RECURSIVE SortedSeq(_)
SortedSeq(S) == IF S = {} THEN <<>> ELSE <<Min(S)>> \o SortedSeq(S \ {Min(S)})

\* bson ObjectId.is_valid
ObjectId_is_valid(id) == id >= 100

\* The claims of a verified token: its subject, email and admin custom claim.
TokenEmail(uid) == uid
TokenAdmin(uid) == uid = 1

\* auth.verify_id_token: raises on an invalid token
verify_id_token(token) == IF token \in Uids THEN <<token>> ELSE None

push(arr, x) == Append(arr, x)

\* $addToSet on an array field
addToSet(arr, x) == IF x \in Range(arr) THEN arr ELSE Append(arr, x)

pull_clears(arr, x) == <<>>

\* $pull on an array field: removes every occurrence
pull(arr, x) == SelectSeq(arr, LAMBDA y : y # x)

\* UserService.get_user_by_firebase_uid: find_one({"firebase_uid": uid})
get_user_by_firebase_uid(uid) ==
    LET m == {id \in DOMAIN users : users[id].firebase_uid = uid}
    IN  IF m = {} THEN None ELSE <<Min(m)>>

get_user_by_email_unchecked(email) == None

\* find_one({"email": email})
get_user_by_email(email) ==
    LET m == {id \in DOMAIN users : users[id].email = email}
    IN  IF m = {} THEN None ELSE <<Min(m)>>

\* events_collection.find_one({"_id": ObjectId(event_id)})
find_event(event_id) == IF event_id \in DOMAIN events THEN <<events[event_id]>> ELSE None

\* The fields get_current_user passes to UserCreate for a first-time
\* identity, and the fields UserBase requires (those without a default).
AutoProfileFields == {"firebase_uid", "email", "full_name", "is_admin"}
RequiredUserFields == {"email", "first_name", "last_name", "firebase_uid",
                       "contact_number", "age_category", "city", "state", "country"}
UserCreate_validates(fields) == RequiredUserFields \subseteq fields

\* get_current_user: no credential -> 401; the token does not verify -> 401;
\* no profile for the uid -> UserCreate(...) raises a validation error inside
\* the outer try -> 401; otherwise {uid, email, is_admin}.  It writes nothing.
\* A rejected request is attributed to 0 when it carries no credential and to
\* -uid when it carries the token of uid.
get_current_user(cred) ==
    IF cred = None THEN [status |-> HTTP_401_UNAUTHORIZED, uid |-> 0, is_admin |-> FALSE]
    ELSE LET decoded == verify_id_token(cred[1]) IN
         IF decoded = None
         THEN [status |-> HTTP_401_UNAUTHORIZED, uid |-> 0, is_admin |-> FALSE]
         ELSE IF get_user_by_firebase_uid(decoded[1]) = None
                 /\ ~UserCreate_validates(AutoProfileFields)
         THEN [status |-> HTTP_401_UNAUTHORIZED, uid |-> 0 - decoded[1], is_admin |-> FALSE]
         ELSE [status |-> HTTP_200_OK, uid |-> decoded[1],
               is_admin |-> TokenAdmin(decoded[1])]

get_admin_user_unchecked(cred) == get_current_user(cred)

\* get_admin_user: get_current_user, then 403 unless the token is an admin's
get_admin_user(cred) ==
    LET user == get_current_user(cred) IN
    IF user.status # HTTP_200_OK THEN user
    ELSE IF ~user.is_admin THEN [user EXCEPT !.status = HTTP_403_FORBIDDEN]
    ELSE user

\* The record of a request and its response: the handler, the caller as
\* get_current_user resolved it (0: no credential, -uid: the token of uid,
\* rejected), the path or body id, the status code and the ids the response
\* body lists.
Resp(op, caller, arg, status, body) ==
    [op |-> op, caller |-> caller, arg |-> arg, status |-> status, body |-> body]

\* ------------------------------------------------------------- state
Init ==
    /\ users = <<>>
    /\ events = <<>>
    /\ progress = <<>>
    /\ nextUser = 0
    /\ nextEvent = 0
    /\ photos = <<>>
    /\ nextProgress = 0
    /\ nextPhoto = 0
    /\ calls = <<>>
    /\ lastOp = Resp("startup", 0, 0, HTTP_200_OK, <<>>)
    /\ snap = None

\* ------------------------------------------------- POST /users/register
\* UserService._generate_unique_bib_number: "while True" draws a random number
\* and returns the first draw that no user holds.
free_bib_numbers == {b \in BibNumbers : \A id \in DOMAIN users : users[id].bib_number # b}

\* UserService.create_user as called by register_user (no authentication).
\* user is the request body, bib the draw _generate_unique_bib_number returns.
register_user(user, bib) ==
    /\ UNCHANGED <<photos, nextPhoto, calls>>
    /\ snap' = None
    /\ IF get_user_by_firebase_uid(user.firebase_uid) # None
       THEN /\ lastOp' = Resp("register_user", 0, user.firebase_uid, HTTP_201_CREATED,
                              get_user_by_firebase_uid(user.firebase_uid))
            /\ UNCHANGED <<db, nextUser, nextEvent, nextProgress>>
       ELSE IF get_user_by_email(user.email) # None
       THEN /\ lastOp' = Resp("register_user", 0, user.firebase_uid,
                              HTTP_400_BAD_REQUEST, <<>>)
            /\ UNCHANGED <<db, nextUser, nextEvent, nextProgress>>
       ELSE /\ nextUser < MaxUsers
            /\ bib \in free_bib_numbers
            /\ LET id == 100 + nextUser + 1 IN
               /\ users' = (id :> [firebase_uid |-> user.firebase_uid,
                                   email |-> user.email, is_admin |-> user.is_admin,
                                   bib_number |-> bib, registered_events |-> <<>>]) @@ users
               /\ nextUser' = nextUser + 1
               /\ lastOp' = Resp("register_user", 0, user.firebase_uid,
                                 HTTP_201_CREATED, <<id>>)
            /\ UNCHANGED <<events, progress, nextEvent, nextProgress>>

\* ------------------------------------------------------- POST /events/
create_event(cred, target_distance) ==
    LET user == get_admin_user(cred) IN
    /\ UNCHANGED <<photos, nextPhoto, calls>>
    /\ snap' = None
    /\ IF user.status # HTTP_200_OK
       THEN /\ lastOp' = Resp("create_event", user.uid, 0, user.status, <<>>)
            /\ UNCHANGED <<db, nextUser, nextEvent, nextProgress>>
       ELSE /\ nextEvent < MaxEvents
            /\ LET id == 200 + nextEvent + 1 IN
               /\ events' = (id :> [target_distance |-> target_distance,
                                    created_by |-> user.uid,
                                    participants |-> <<>>]) @@ events
               /\ nextEvent' = nextEvent + 1
               /\ lastOp' = Resp("create_event", user.uid, id, HTTP_200_OK, <<>>)
            /\ UNCHANGED <<users, progress, nextUser, nextProgress>>

\* ------------------------------------------------ PUT /events/{event_id}
\* update_data: the fields of the body that are set and not None
set_fields(update) == {k \in DOMAIN update : update[k] # None}

\* A replacement of the document by the body: participants back to its default
replace_document(doc, update) ==
    [k \in DOMAIN doc |-> IF k \in set_fields(update) THEN update[k]
                          ELSE IF k = "participants" THEN <<>> ELSE doc[k]]

\* {"$set": update_data} on a document
set_document(doc, update) ==
    [k \in DOMAIN doc |-> IF k \in set_fields(update) THEN update[k] ELSE doc[k]]

update_event(cred, event_id, event_update) ==
    LET user == get_admin_user(cred) IN
    /\ UNCHANGED <<photos, nextPhoto, calls>>
    /\ snap' = None
    /\ UNCHANGED <<users, progress, nextUser, nextEvent, nextProgress>>
    /\ IF user.status # HTTP_200_OK
       THEN /\ lastOp' = Resp("update_event", user.uid, event_id, user.status, <<>>)
            /\ UNCHANGED events
       ELSE IF ~ObjectId_is_valid(event_id)
       THEN /\ lastOp' = Resp("update_event", user.uid, event_id, HTTP_400_BAD_REQUEST, <<>>)
            /\ UNCHANGED events
       ELSE IF find_event(event_id) = None
       THEN /\ lastOp' = Resp("update_event", user.uid, event_id, HTTP_404_NOT_FOUND, <<>>)
            /\ UNCHANGED events
       ELSE /\ events' = [events EXCEPT ![event_id] = set_document(@, event_update)]
            /\ lastOp' = Resp("update_event", user.uid, event_id, HTTP_200_OK, <<>>)

\* --------------------------------------------- DELETE /events/{event_id}
delete_event(cred, event_id) ==
    LET user == get_admin_user(cred) IN
    /\ UNCHANGED <<photos, nextPhoto, calls>>
    /\ snap' = None
    /\ UNCHANGED <<users, progress, nextUser, nextEvent, nextProgress>>
    /\ IF user.status # HTTP_200_OK
       THEN /\ lastOp' = Resp("delete_event", user.uid, event_id, user.status, <<>>)
            /\ UNCHANGED events
       ELSE IF ~ObjectId_is_valid(event_id)
       THEN /\ lastOp' = Resp("delete_event", user.uid, event_id, HTTP_400_BAD_REQUEST, <<>>)
            /\ UNCHANGED events
       ELSE IF find_event(event_id) = None
       THEN /\ lastOp' = Resp("delete_event", user.uid, event_id, HTTP_404_NOT_FOUND, <<>>)
            /\ UNCHANGED events
       ELSE /\ events' = [e \in DOMAIN events \ {event_id} |-> events[e]]
            /\ lastOp' = Resp("delete_event", user.uid, event_id, HTTP_204_NO_CONTENT, <<>>)

\* ------------------------------------ POST /events/{event_id}/register
already_registered_unchecked(uid, event) == FALSE

\* "Check if user is already registered"
already_registered(uid, event) == uid \in Range(event.participants)

register_for_event(cred, event_id) ==
    LET user == get_current_user(cred) IN
    /\ UNCHANGED <<photos, nextPhoto, calls>>
    /\ UNCHANGED <<users, progress, nextUser, nextEvent, nextProgress>>
    /\ IF user.status # HTTP_200_OK
       THEN /\ lastOp' = Resp("register_for_event", user.uid, event_id, user.status, <<>>)
            /\ UNCHANGED events /\ snap' = None
       ELSE IF ~ObjectId_is_valid(event_id)
       THEN /\ lastOp' = Resp("register_for_event", user.uid, event_id, HTTP_400_BAD_REQUEST, <<>>)
            /\ UNCHANGED events /\ snap' = None
       ELSE IF find_event(event_id) = None
       THEN /\ lastOp' = Resp("register_for_event", user.uid, event_id, HTTP_404_NOT_FOUND, <<>>)
            /\ UNCHANGED events /\ snap' = None
       ELSE IF already_registered(user.uid, events[event_id])
       THEN /\ lastOp' = Resp("register_for_event", user.uid, event_id, HTTP_400_BAD_REQUEST, <<>>)
            /\ UNCHANGED events /\ snap' = None
       ELSE /\ events' = [events EXCEPT ![event_id].participants = addToSet(@, user.uid)]
            /\ lastOp' = Resp("register_for_event", user.uid, event_id, HTTP_200_OK, <<>>)
            /\ snap' = <<[uid |-> user.uid, event_id |-> event_id, events |-> events,
                          users |-> users, closed |-> FALSE]>>

\* ---------------------------------- POST /events/{event_id}/unregister
is_registered_unchecked(uid, event) == TRUE

\* "Check if user is registered"
is_registered(uid, event) == uid \in Range(event.participants)

unregister_from_event(cred, event_id) ==
    LET user == get_current_user(cred) IN
    /\ UNCHANGED <<photos, nextPhoto, calls>>
    /\ UNCHANGED <<users, progress, nextUser, nextEvent, nextProgress>>
    /\ IF user.status # HTTP_200_OK
       THEN /\ lastOp' = Resp("unregister_from_event", user.uid, event_id, user.status, <<>>)
            /\ UNCHANGED events /\ snap' = None
       ELSE IF ~ObjectId_is_valid(event_id)
       THEN /\ lastOp' = Resp("unregister_from_event", user.uid, event_id, HTTP_400_BAD_REQUEST, <<>>)
            /\ UNCHANGED events /\ snap' = None
       ELSE IF find_event(event_id) = None
       THEN /\ lastOp' = Resp("unregister_from_event", user.uid, event_id, HTTP_404_NOT_FOUND, <<>>)
            /\ UNCHANGED events /\ snap' = None
       ELSE IF ~is_registered(user.uid, events[event_id])
       THEN /\ lastOp' = Resp("unregister_from_event", user.uid, event_id, HTTP_400_BAD_REQUEST, <<>>)
            /\ UNCHANGED events /\ snap' = None
       ELSE /\ events' = [events EXCEPT ![event_id].participants = pull(@, user.uid)]
            /\ lastOp' = Resp("unregister_from_event", user.uid, event_id, HTTP_200_OK, <<>>)
            /\ snap' = IF snap # None /\ ~snap[1].closed /\ snap[1].uid = user.uid
                          /\ snap[1].event_id = event_id
                       THEN <<[snap[1] EXCEPT !.closed = TRUE]>>
                       ELSE None

\* ------------------------------------------- GET /events/user/registered
\* EventService.get_user_events: find({"participants": user_id})
get_user_events(user_id) ==
    SortedSeq({e \in DOMAIN events : user_id \in Range(events[e].participants)})

\* The handler looks the caller's profile up and queries by str(user.id).
get_user_registered_events(cred) ==
    LET current_user == get_current_user(cred)
        user == get_user_by_firebase_uid(current_user.uid) IN
    /\ UNCHANGED <<photos, nextPhoto, calls>>
    /\ snap' = None
    /\ UNCHANGED <<db, nextUser, nextEvent, nextProgress>>
    /\ IF current_user.status # HTTP_200_OK
       THEN lastOp' = Resp("get_user_registered_events", current_user.uid, 0,
                           current_user.status, <<>>)
       ELSE IF user = None
       THEN lastOp' = Resp("get_user_registered_events", current_user.uid, 0,
                           HTTP_404_NOT_FOUND, <<>>)
       ELSE lastOp' = Resp("get_user_registered_events", current_user.uid, 0,
                           HTTP_200_OK, get_user_events(user[1]))

\* ------------------------------------------------------ ProgressService
\* app.db.mongodb.get_database is a coroutine function: a call that is awaited
\* yields the database, a call that is not awaited yields a coroutine object.
get_database(awaited) == IF awaited THEN "database" ELSE "coroutine"

\* Every ProgressService method binds db = get_database(), without await.
ProgressService_db == get_database(FALSE)

\* db[cls.collection_name]: a coroutine object is not subscriptable; the
\* TypeError is not caught and the request ends as 500.
subscriptable(handle) == handle = "database"

is_participant_unchecked(user_id, event) == TRUE

\* "Check if user is registered for the event"
is_participant(user_id, event) == user_id \in Range(event.participants)

\* ProgressService.create_progress: the status it ends with
create_progress_status(user_id, event_id) ==
    IF ~ObjectId_is_valid(event_id) THEN HTTP_400_BAD_REQUEST
    ELSE IF find_event(event_id) = None THEN HTTP_404_NOT_FOUND
    ELSE IF ~is_participant(user_id, events[event_id]) THEN HTTP_400_BAD_REQUEST
    ELSE IF ~subscriptable(ProgressService_db) THEN HTTP_500_INTERNAL_SERVER_ERROR
    ELSE HTTP_201_CREATED

\* datetime.utcnow(): the store's entries are stamped in the order they are written
utcnow == nextProgress + 1

\* ------------------------------------------------------ POST /progress/
create_progress(cred, event_id, distance, time) ==
    LET current_user == get_current_user(cred)
        user == get_user_by_firebase_uid(current_user.uid) IN
    /\ UNCHANGED <<photos, nextPhoto, calls>>
    /\ snap' = None
    /\ UNCHANGED <<users, events, nextUser, nextEvent>>
    /\ IF current_user.status # HTTP_200_OK
       THEN /\ lastOp' = Resp("create_progress", current_user.uid, event_id,
                              current_user.status, <<>>)
            /\ UNCHANGED <<progress, nextProgress>>
       ELSE IF user = None
       THEN /\ lastOp' = Resp("create_progress", current_user.uid, event_id,
                              HTTP_404_NOT_FOUND, <<>>)
            /\ UNCHANGED <<progress, nextProgress>>
       ELSE LET st == create_progress_status(user[1], event_id) IN
            IF st # HTTP_201_CREATED
            THEN /\ lastOp' = Resp("create_progress", current_user.uid, event_id, st, <<>>)
                 /\ UNCHANGED <<progress, nextProgress>>
            ELSE /\ nextProgress < MaxProgress
                 /\ progress' = Append(progress,
                        [id |-> 300 + nextProgress + 1, event_id |-> event_id,
                         user_id |-> user[1], distance |-> distance, time |-> time,
                         notes |-> None, date |-> utcnow, created_at |-> utcnow,
                         updated_at |-> None])
                 /\ nextProgress' = nextProgress + 1
                 /\ lastOp' = Resp("create_progress", current_user.uid, event_id, st,
                                   <<300 + nextProgress + 1>>)

\* ------------------------------------------- PUT /progress/{progress_id}
\* ProgressService.get_progress: the status it ends with (200: the entry or None)
get_progress_status(progress_id) ==
    IF ~ObjectId_is_valid(progress_id) THEN HTTP_400_BAD_REQUEST
    ELSE IF ~subscriptable(ProgressService_db) THEN HTTP_500_INTERNAL_SERVER_ERROR
    ELSE HTTP_200_OK

\* find_one({"_id": ObjectId(progress_id)}): the positions holding the entry
find_progress(progress_id) == {i \in 1..Len(progress) : progress[i].id = progress_id}

\* "belongs to the current user or the user is an admin"
may_change(entry, user_id, current_user) ==
    entry.user_id = user_id \/ current_user.is_admin

update_progress(cred, progress_id, progress_update) ==
    LET current_user == get_current_user(cred)
        user == get_user_by_firebase_uid(current_user.uid)
        st == get_progress_status(progress_id)
        found == find_progress(progress_id)
        reply(status) ==
            /\ lastOp' = Resp("update_progress", current_user.uid, progress_id, status, <<>>)
            /\ UNCHANGED progress
    IN
    /\ UNCHANGED <<photos, nextPhoto, calls>>
    /\ snap' = None
    /\ UNCHANGED <<users, events, counters>>
    /\ IF current_user.status # HTTP_200_OK THEN reply(current_user.status)
       ELSE IF st # HTTP_200_OK THEN reply(st)
       ELSE IF found = {} THEN reply(HTTP_404_NOT_FOUND)
       ELSE IF user = None THEN reply(HTTP_404_NOT_FOUND)
       ELSE IF ~may_change(progress[Min(found)], user[1], current_user)
       THEN reply(HTTP_403_FORBIDDEN)
       ELSE IF set_fields(progress_update) = {} THEN reply(HTTP_400_BAD_REQUEST)
       ELSE /\ progress' = [progress EXCEPT ![Min(found)] =
                               [set_document(@, progress_update)
                                   EXCEPT !.updated_at = <<utcnow>>]]
            /\ lastOp' = Resp("update_progress", current_user.uid, progress_id,
                              HTTP_200_OK, <<progress_id>>)

\* ---------------------------------------- DELETE /progress/{progress_id}
delete_progress(cred, progress_id) ==
    LET current_user == get_current_user(cred)
        user == get_user_by_firebase_uid(current_user.uid)
        st == get_progress_status(progress_id)
        found == find_progress(progress_id)
        reply(status) ==
            /\ lastOp' = Resp("delete_progress", current_user.uid, progress_id, status, <<>>)
            /\ UNCHANGED progress
    IN
    /\ UNCHANGED <<photos, nextPhoto, calls>>
    /\ snap' = None
    /\ UNCHANGED <<users, events, counters>>
    /\ IF current_user.status # HTTP_200_OK THEN reply(current_user.status)
       ELSE IF st # HTTP_200_OK THEN reply(st)
       ELSE IF found = {} THEN reply(HTTP_404_NOT_FOUND)
       ELSE IF user = None THEN reply(HTTP_404_NOT_FOUND)
       ELSE IF ~may_change(progress[Min(found)], user[1], current_user)
       THEN reply(HTTP_403_FORBIDDEN)
       ELSE /\ progress' = SelectSeq(progress, LAMBDA e : e.id # progress_id)
            /\ lastOp' = Resp("delete_progress", current_user.uid, progress_id,
                              HTTP_204_NO_CONTENT, <<>>)

\* --------------------------------- GET /progress/event/{id}/leaderboard
Max(S) == CHOOSE x \in S : \A y \in S : x >= y

\* {"$match": {"event_id": event_id}}: the positions of the matching entries
match(event_id) == {i \in 1..Len(progress) : progress[i].event_id = event_id}

\* $sum adds 0 for a missing (null) value
summand(v) == IF v = None THEN 0 ELSE v[1]

RECURSIVE sum_distance(_)
sum_distance(I) ==
    IF I = {} THEN 0
    ELSE summand(progress[Min(I)].distance) + sum_distance(I \ {Min(I)})

RECURSIVE sum_time(_)
sum_time(I) ==
    IF I = {} THEN 0
    ELSE summand(progress[Min(I)].time) + sum_time(I \ {Min(I)})

\* {"$group": {"_id": "$user_id", total_distance, total_time, last_update}}
group(event_id) ==
    {LET I == {i \in match(event_id) : progress[i].user_id = u} IN
         [user_id |-> u, total_distance |-> sum_distance(I), total_time |-> sum_time(I),
          last_update |-> Max({progress[i].created_at : i \in I})]
     : u \in {progress[i].user_id : i \in match(event_id)}}

\* "if event.target_distance:" is false for None and for 0
ranks_by_distance(event) == event.target_distance # None /\ event.target_distance[1] # 0

\* {"$sort": {total: -1, "last_update": 1}}: a comes before b, or the sort leaves
\* their order open (both keys equal)
sort_allows(event, a, b) ==
    LET ka == IF ranks_by_distance(event) THEN a.total_distance ELSE a.total_time
        kb == IF ranks_by_distance(event) THEN b.total_distance ELSE b.total_time
    IN  ka > kb \/ (ka = kb /\ a.last_update <= b.last_update)

\* The orders the aggregation cursor can yield the grouped rows in
sorted_orders(event, rows) ==
    {s \in [1..Cardinality(rows) -> rows] :
        /\ \A i, j \in DOMAIN s : i # j => s[i] # s[j]
        /\ \A i, j \in DOMAIN s : i < j => sort_allows(event, s[i], s[j])}

\* "rank = 1 ... rank += 1": the i-th row of the cursor gets rank i
with_ranks(s) ==
    [i \in DOMAIN s |-> [rank |-> i, user_id |-> s[i].user_id,
                         total_distance |-> s[i].total_distance,
                         total_time |-> s[i].total_time,
                         last_update |-> s[i].last_update]]

\* ProgressService.get_leaderboard: the status it ends with
get_leaderboard_status(event_id) ==
    IF ~ObjectId_is_valid(event_id) THEN HTTP_400_BAD_REQUEST
    ELSE IF find_event(event_id) = None THEN HTTP_404_NOT_FOUND
    ELSE IF ~subscriptable(ProgressService_db) THEN HTTP_500_INTERNAL_SERVER_ERROR
    ELSE HTTP_200_OK

get_event_leaderboard(cred, event_id) ==
    LET current_user == get_current_user(cred) IN
    /\ UNCHANGED <<photos, nextPhoto, calls>>
    /\ snap' = None
    /\ UNCHANGED <<db, nextUser, nextEvent, nextProgress>>
    /\ IF current_user.status # HTTP_200_OK
       THEN lastOp' = Resp("get_event_leaderboard", current_user.uid, event_id,
                           current_user.status, <<>>)
       ELSE LET st == get_leaderboard_status(event_id) IN
            IF st # HTTP_200_OK
            THEN lastOp' = Resp("get_event_leaderboard", current_user.uid, event_id, st, <<>>)
            ELSE \E s \in sorted_orders(events[event_id], group(event_id)) :
                    lastOp' = Resp("get_event_leaderboard", current_user.uid, event_id,
                                   st, with_ranks(s))

\* ------------------------------------------------------ specification
\* The bodies the sign-up form posts: the signed-in identity's own uid and
\* email, is_admin left at its default.
SignupBodies ==
    {[firebase_uid |-> u, email |-> TokenEmail(u), is_admin |-> FALSE] : u \in Uids}

\* Bib numbers are interchangeable: the draws are explored in increasing order.
BibDraws == IF free_bib_numbers = {} THEN {} ELSE {Min(free_bib_numbers)}

\* The bodies of POST /progress/: a distance or a time
ProgressBodies == {[distance |-> <<5>>, time |-> None], [distance |-> None, time |-> <<5>>]}

\* The ids a progress path names: a malformed one, or an ObjectId
ProgressIdInputs == {0} \cup {300 + i : i \in 1..MaxProgress}

\* The bodies of PUT /progress/{id}: only notes, or nothing
ProgressUpdates ==
    {[distance |-> None, time |-> None, notes |-> <<1>>, date |-> None],
     [distance |-> None, time |-> None, notes |-> None, date |-> None]}

\* The bodies of PUT /events/{id}: a new target distance, or nothing
EventUpdates == {[target_distance |-> <<20>>], [target_distance |-> None]}

Next ==
    \/ \E user \in SignupBodies, bib \in BibDraws : register_user(user, bib)
    \/ \E cred \in Creds, td \in TargetDistances : create_event(cred, td)
    \/ \E cred \in Creds, e \in EventIdInputs : delete_event(cred, e)
    \/ \E cred \in Creds, e \in EventIdInputs : register_for_event(cred, e)
    \/ \E cred \in Creds, e \in EventIdInputs : unregister_from_event(cred, e)
    \/ \E cred \in Creds : get_user_registered_events(cred)
    \/ \E cred \in Creds, e \in EventIdInputs, p \in ProgressBodies :
          create_progress(cred, e, p.distance, p.time)
    \/ \E cred \in Creds, p \in ProgressIdInputs, u \in ProgressUpdates :
          update_progress(cred, p, u)
    \/ \E cred \in Creds, p \in ProgressIdInputs : delete_progress(cred, p)
    \/ \E cred \in Creds, e \in EventIdInputs : get_event_leaderboard(cred, e)

Spec == Init /\ [][Next]_vars

\* -------------------------------------------------------------- photos
\* get_optional_user: get_current_user with "return None" for each rejection
get_optional_user(cred) ==
    LET user == get_current_user(cred) IN
    IF user.status # HTTP_200_OK THEN None ELSE <<user>>

\* The uid of the default user create_photo falls back to ("test-user")
test_user == 0

\* PhotoService.create_photo stores model_dump(by_alias=True), whose _id the
\* PyObjectId validator has turned into a str.
Photo(created_by) == [created_by |-> created_by, title |-> 1, id_type |-> "str"]

\* find_one / update_one / delete_one({"_id": ObjectId(photo_id)})
photo_by_ObjectId(photo_id) ==
    {p \in DOMAIN photos : p = photo_id /\ photos[p].id_type = "ObjectId"}

\* find_one / delete_one({"_id": photo_id}), the fallback on the string
photo_by_str(photo_id) ==
    {p \in DOMAIN photos : p = photo_id /\ photos[p].id_type = "str"}

\* PhotoService.get_photo: by ObjectId, then "with string ID as fallback"
get_photo(photo_id) == photo_by_ObjectId(photo_id) \cup photo_by_str(photo_id)

\* POST /photos/
create_photo(cred, is_image) ==
    LET optional == get_optional_user(cred)
        current_user == IF optional = None
                        THEN [uid |-> test_user, is_admin |-> TRUE]
                        ELSE [uid |-> optional[1].uid, is_admin |-> optional[1].is_admin]
        caller == get_current_user(cred).uid
    IN
    /\ UNCHANGED <<db, nextUser, nextEvent, nextProgress, calls>>
    /\ snap' = None
    /\ IF ~is_image
       THEN \* the 400 raised inside the try is caught by "except Exception"
            /\ lastOp' = Resp("create_photo", caller, 0, HTTP_500_INTERNAL_SERVER_ERROR, <<>>)
            /\ UNCHANGED <<photos, nextPhoto>>
       ELSE /\ nextPhoto < MaxPhotos
            /\ LET id == 400 + nextPhoto + 1 IN
               /\ photos' = (id :> Photo(current_user.uid)) @@ photos
               /\ lastOp' = Resp("create_photo", caller, id, HTTP_200_OK, <<id>>)
            /\ nextPhoto' = nextPhoto + 1

\* PUT /photos/{photo_id}
update_photo(cred, photo_id, photo_data) ==
    LET user == get_admin_user(cred)
        reply(status) ==
            /\ lastOp' = Resp("update_photo", user.uid, photo_id, status, <<>>)
            /\ UNCHANGED photos
    IN
    /\ UNCHANGED <<db, counters, calls>>
    /\ snap' = None
    /\ IF user.status # HTTP_200_OK THEN reply(user.status)
       ELSE IF ~ObjectId_is_valid(photo_id) THEN reply(HTTP_400_BAD_REQUEST)
       ELSE IF set_fields(photo_data) = {}
       THEN reply(IF get_photo(photo_id) = {} THEN HTTP_404_NOT_FOUND ELSE HTTP_200_OK)
       ELSE IF photo_by_ObjectId(photo_id) = {} THEN reply(HTTP_404_NOT_FOUND)
       ELSE /\ photos' = [photos EXCEPT ![photo_id] = set_document(@, photo_data)]
            /\ lastOp' = Resp("update_photo", user.uid, photo_id, HTTP_200_OK, <<photo_id>>)

\* DELETE /photos/{photo_id}
delete_photo(cred, photo_id) ==
    LET current_user == get_optional_user(cred)
        caller == get_current_user(cred).uid
        reply(status) ==
            /\ lastOp' = Resp("delete_photo", caller, photo_id, status, <<>>)
            /\ UNCHANGED photos
    IN
    /\ UNCHANGED <<db, counters, calls>>
    /\ snap' = None
    /\ IF current_user = None \/ ~current_user[1].is_admin THEN reply(HTTP_403_FORBIDDEN)
       ELSE IF ~ObjectId_is_valid(photo_id) THEN reply(HTTP_400_BAD_REQUEST)
       ELSE IF get_photo(photo_id) = {} THEN reply(HTTP_404_NOT_FOUND)
       ELSE /\ photos' = [p \in DOMAIN photos \ {photo_id} |-> photos[p]]
            /\ lastOp' = Resp("delete_photo", caller, photo_id, HTTP_200_OK, <<>>)

\* The ids a photo path names: a malformed one, or an ObjectId
PhotoIdInputs == {0} \cup {400 + i : i \in 1..MaxPhotos}

\* The bodies of PUT /photos/{id}: a new title, or nothing
PhotoUpdates == {[title |-> <<2>>], [title |-> None]}

PhotoNext ==
    \/ \E user \in SignupBodies, bib \in BibDraws : register_user(user, bib)
    \/ \E cred \in Creds, is_image \in BOOLEAN : create_photo(cred, is_image)
    \/ \E cred \in Creds, p \in PhotoIdInputs, u \in PhotoUpdates : update_photo(cred, p, u)
    \/ \E cred \in Creds, p \in PhotoIdInputs : delete_photo(cred, p)

PhotoSpec == Init /\ [][PhotoNext]_vars

\* ------------------------------------------- requests running concurrently
\* A request in flight: the handler, the await it is suspended at (pc), its
\* local variables and, once it has answered, its status code.
Call(op, pc, locals, status) == [op |-> op, pc |-> pc, locals |-> locals, status |-> status]

at(c, op, pc) == c \in DOMAIN calls /\ calls[c].op = op /\ calls[c].pc = pc

goto(c, pc, locals) == calls' = [calls EXCEPT ![c].pc = pc, ![c].locals = locals]

answer(c, status) == calls' = [calls EXCEPT ![c].pc = "done", ![c].status = status]

\* POST /users/register arrives: UserService.create_user(user) starts
register_user_begin(user) ==
    /\ Len(calls) < NumCalls
    /\ calls' = Append(calls, Call("create_user", "find_firebase_uid",
                                   [user |-> user, bib_number |-> 0], 0))
    /\ UNCHANGED <<db, photos, counters, lastOp, snap>>

\* existing_user = await find_one({"firebase_uid": user.firebase_uid})
create_user_find_firebase_uid(c) ==
    /\ at(c, "create_user", "find_firebase_uid")
    /\ IF get_user_by_firebase_uid(calls[c].locals.user.firebase_uid) # None
       THEN answer(c, HTTP_201_CREATED)
       ELSE goto(c, "find_email", calls[c].locals)
    /\ UNCHANGED <<db, photos, counters, lastOp, snap>>

\* existing_email = await find_one({"email": user.email})
create_user_find_email(c) ==
    /\ at(c, "create_user", "find_email")
    /\ IF get_user_by_email(calls[c].locals.user.email) # None
       THEN answer(c, HTTP_400_BAD_REQUEST)
       ELSE goto(c, "generate_unique_bib_number", calls[c].locals)
    /\ UNCHANGED <<db, photos, counters, lastOp, snap>>

\* One turn of the "while True" of _generate_unique_bib_number: a random
\* number, existing_bib = await find_one({"bib_number": bib_number})
generate_unique_bib_number(c, bib_number) ==
    /\ at(c, "create_user", "generate_unique_bib_number")
    /\ IF bib_number \in free_bib_numbers
       THEN goto(c, "insert_one", [calls[c].locals EXCEPT !.bib_number = bib_number])
       ELSE goto(c, "generate_unique_bib_number", calls[c].locals)
    /\ UNCHANGED <<db, photos, counters, lastOp, snap>>

\* result = await insert_one(user_dict)
create_user_insert_one(c) ==
    /\ at(c, "create_user", "insert_one")
    /\ nextUser < MaxUsers
    /\ LET id == 100 + nextUser + 1
           user == calls[c].locals.user IN
       users' = (id :> [firebase_uid |-> user.firebase_uid, email |-> user.email,
                        is_admin |-> user.is_admin,
                        bib_number |-> calls[c].locals.bib_number,
                        registered_events |-> <<>>]) @@ users
    /\ nextUser' = nextUser + 1
    /\ answer(c, HTTP_201_CREATED)
    /\ UNCHANGED <<events, progress, photos, nextEvent, nextProgress, nextPhoto, lastOp, snap>>

\* The bodies POST /users/register accepts: any identity with any email
RegisterBodies ==
    {[firebase_uid |-> u, email |-> TokenEmail(e), is_admin |-> FALSE] : u \in Uids, e \in Uids}

ConcurrentSignupNext ==
    \/ \E user \in RegisterBodies : register_user_begin(user)
    \/ \E c \in DOMAIN calls : create_user_find_firebase_uid(c)
    \/ \E c \in DOMAIN calls : create_user_find_email(c)
    \/ \E c \in DOMAIN calls, b \in BibNumbers : generate_unique_bib_number(c, b)
    \/ \E c \in DOMAIN calls : create_user_insert_one(c)

ConcurrentSignup == Init /\ [][ConcurrentSignupNext]_vars

\* The steps of the request c. The event loop resumes every coroutine whose
\* await has completed, so a request that can take a step eventually does;
\* a draw that hits a used number changes nothing and is not such a step.
create_user_step(c) ==
    \/ create_user_find_firebase_uid(c)
    \/ create_user_find_email(c)
    \/ \E b \in BibNumbers : generate_unique_bib_number(c, b)
    \/ create_user_insert_one(c)

FairConcurrentSignup ==
    ConcurrentSignup /\ \A c \in 1..NumCalls : WF_vars(create_user_step(c))

\* POST /events/{event_id}/register arrives: the dependency get_current_user
\* and the ObjectId check run, then the handler awaits find_one
register_for_event_begin(cred, event_id) ==
    LET user == get_current_user(cred) IN
    /\ Len(calls) < NumCalls
    /\ calls' = Append(calls,
          IF user.status # HTTP_200_OK
          THEN Call("register_for_event", "done",
                    [uid |-> user.uid, event_id |-> event_id], user.status)
          ELSE IF ~ObjectId_is_valid(event_id)
          THEN Call("register_for_event", "done",
                    [uid |-> user.uid, event_id |-> event_id], HTTP_400_BAD_REQUEST)
          ELSE Call("register_for_event", "find_one",
                    [uid |-> user.uid, event_id |-> event_id], 0))
    /\ UNCHANGED <<db, photos, counters, lastOp, snap>>

\* event = await find_one(...), then the checks on the document it returned
register_for_event_find_one(c) ==
    /\ at(c, "register_for_event", "find_one")
    /\ LET event == find_event(calls[c].locals.event_id) IN
       IF event = None THEN answer(c, HTTP_404_NOT_FOUND)
       ELSE IF already_registered(calls[c].locals.uid, event[1])
       THEN answer(c, HTTP_400_BAD_REQUEST)
       ELSE goto(c, "update_one", calls[c].locals)
    /\ UNCHANGED <<db, photos, counters, lastOp, snap>>

\* await update_one({"_id": ...}, {"$addToSet": {"participants": uid}}): the
\* store applies it to the document as it is now (to none if it is gone)
register_for_event_update_one(c) ==
    /\ at(c, "register_for_event", "update_one")
    /\ LET event_id == calls[c].locals.event_id IN
       events' = IF event_id \in DOMAIN events
                 THEN [events EXCEPT ![event_id].participants =
                                         addToSet(@, calls[c].locals.uid)]
                 ELSE events
    /\ answer(c, HTTP_200_OK)
    /\ UNCHANGED <<users, progress, photos, counters, lastOp, snap>>

\* POST /events/{event_id}/unregister, one await at a time
unregister_from_event_begin(cred, event_id) ==
    LET user == get_current_user(cred) IN
    /\ Len(calls) < NumCalls
    /\ calls' = Append(calls,
          IF user.status # HTTP_200_OK
          THEN Call("unregister_from_event", "done",
                    [uid |-> user.uid, event_id |-> event_id], user.status)
          ELSE IF ~ObjectId_is_valid(event_id)
          THEN Call("unregister_from_event", "done",
                    [uid |-> user.uid, event_id |-> event_id], HTTP_400_BAD_REQUEST)
          ELSE Call("unregister_from_event", "find_one",
                    [uid |-> user.uid, event_id |-> event_id], 0))
    /\ UNCHANGED <<db, photos, counters, lastOp, snap>>

unregister_from_event_find_one(c) ==
    /\ at(c, "unregister_from_event", "find_one")
    /\ LET event == find_event(calls[c].locals.event_id) IN
       IF event = None THEN answer(c, HTTP_404_NOT_FOUND)
       ELSE IF ~is_registered(calls[c].locals.uid, event[1])
       THEN answer(c, HTTP_400_BAD_REQUEST)
       ELSE goto(c, "update_one", calls[c].locals)
    /\ UNCHANGED <<db, photos, counters, lastOp, snap>>

\* await update_one({"_id": ...}, {"$pull": {"participants": uid}})
unregister_from_event_update_one(c) ==
    /\ at(c, "unregister_from_event", "update_one")
    /\ LET event_id == calls[c].locals.event_id IN
       events' = IF event_id \in DOMAIN events
                 THEN [events EXCEPT ![event_id].participants =
                                         pull(@, calls[c].locals.uid)]
                 ELSE events
    /\ answer(c, HTTP_200_OK)
    /\ UNCHANGED <<users, progress, photos, counters, lastOp, snap>>

\* The database after every identity has signed up and the admin has created
\* MaxEvents events, and before anyone has registered.
SignedUp ==
    [id \in {100 + u : u \in Uids} |->
        [firebase_uid |-> id - 100, email |-> TokenEmail(id - 100), is_admin |-> FALSE,
         bib_number |-> id - 100, registered_events |-> <<>>]]

Created ==
    [id \in EventOids |-> [target_distance |-> <<10>>,
                           created_by |-> CHOOSE u \in Uids : TokenAdmin(u),
                           participants |-> <<>>]]

ConcurrentRegisterInit ==
    /\ users = SignedUp
    /\ events = Created
    /\ progress = <<>>
    /\ photos = <<>>
    /\ nextUser = NumUids
    /\ nextEvent = MaxEvents
    /\ nextProgress = 0
    /\ nextPhoto = 0
    /\ calls = <<>>
    /\ lastOp = Resp("create_event", CHOOSE u \in Uids : TokenAdmin(u), 200 + MaxEvents,
                     HTTP_200_OK, <<>>)
    /\ snap = None

ConcurrentRegisterNext ==
    \/ \E cred \in Creds, e \in EventIdInputs : register_for_event_begin(cred, e)
    \/ \E c \in DOMAIN calls : register_for_event_find_one(c)
    \/ \E c \in DOMAIN calls : register_for_event_update_one(c)
    \/ \E cred \in Creds, e \in EventIdInputs : unregister_from_event_begin(cred, e)
    \/ \E c \in DOMAIN calls : unregister_from_event_find_one(c)
    \/ \E c \in DOMAIN calls : unregister_from_event_update_one(c)

ConcurrentRegister == ConcurrentRegisterInit /\ [][ConcurrentRegisterNext]_vars

\* The administration of events: the handlers that create, change and delete
\* event records, with the sign-up and registration they act on.
AdminNext ==
    \/ \E user \in SignupBodies, bib \in BibDraws : register_user(user, bib)
    \/ \E cred \in Creds, td \in TargetDistances : create_event(cred, td)
    \/ \E cred \in Creds, e \in EventIdInputs, u \in EventUpdates : update_event(cred, e, u)
    \/ \E cred \in Creds, e \in EventIdInputs : delete_event(cred, e)
    \/ \E cred \in Creds, e \in EventIdInputs : register_for_event(cred, e)

AdminSpec == Init /\ [][AdminNext]_vars
\* ------------------------------------------------------ user directory
\* delete_one({"_id": ObjectId(id)}): the collection without that document
delete_many(coll, id) == <<>>

delete_one(coll, id) == [k \in DOMAIN coll \ {id} |-> coll[k]]

\* {"$set": update_data} on a user document: the fields named are written,
\* a field the document did not have yet is added
set_update(doc, update_data) == update_data @@ doc

\* UserService.update_user: update_data = the fields of the body that are
\* not None, and updated_at
user_update_data(user_update) ==
    [k \in set_fields(user_update) |-> user_update[k][1]] @@ [updated_at |-> utcnow]

\* UserService.create_user(user), the draw of the bib number given: the
\* profile of the identity if there is one, 400 if the email is taken,
\* otherwise the new document
create_user_service(op, caller, user, bib) ==
    IF get_user_by_firebase_uid(user.firebase_uid) # None
    THEN /\ lastOp' = Resp(op, caller, user.firebase_uid, HTTP_201_CREATED,
                           get_user_by_firebase_uid(user.firebase_uid))
         /\ UNCHANGED <<users, nextUser>>
    ELSE IF get_user_by_email(user.email) # None
    THEN /\ lastOp' = Resp(op, caller, user.firebase_uid, HTTP_400_BAD_REQUEST, <<>>)
         /\ UNCHANGED <<users, nextUser>>
    ELSE /\ nextUser < MaxUsers
         /\ bib \in free_bib_numbers
         /\ LET id == 100 + nextUser + 1 IN
            /\ users' = (id :> [firebase_uid |-> user.firebase_uid,
                                email |-> user.email, is_admin |-> user.is_admin,
                                bib_number |-> bib, registered_events |-> <<>>]) @@ users
            /\ nextUser' = nextUser + 1
            /\ lastOp' = Resp(op, caller, user.firebase_uid, HTTP_201_CREATED, <<id>>)

\* ------------------------------------------------------- POST /users/
create_user(cred, user, bib) ==
    LET current_user == get_current_user(cred) IN
    /\ UNCHANGED <<events, progress, photos, nextEvent, nextProgress, nextPhoto, calls>>
    /\ snap' = None
    /\ IF current_user.status # HTTP_200_OK
       THEN /\ lastOp' = Resp("create_user", current_user.uid, 0, current_user.status, <<>>)
            /\ UNCHANGED <<users, nextUser>>
       ELSE IF user.is_admin /\ ~current_user.is_admin
       THEN /\ lastOp' = Resp("create_user", current_user.uid, current_user.uid,
                              HTTP_403_FORBIDDEN, <<>>)
            /\ UNCHANGED <<users, nextUser>>
       ELSE create_user_service("create_user", current_user.uid,
                                [user EXCEPT !.firebase_uid = current_user.uid,
                                             !.email = TokenEmail(current_user.uid)], bib)

\* ------------------------------------------------------ PUT /users/me
admin_status_denied_unchecked(user_update, current_user) == FALSE

\* "Only admins can update admin status"
admin_status_denied(user_update, current_user) ==
    user_update.is_admin # None /\ ~current_user.is_admin

update_current_user(cred, user_update) ==
    LET current_user == get_current_user(cred)
        user == get_user_by_firebase_uid(current_user.uid) IN
    /\ UNCHANGED <<events, progress, photos, counters, calls>>
    /\ snap' = None
    /\ IF current_user.status # HTTP_200_OK
       THEN /\ lastOp' = Resp("update_current_user", current_user.uid, 0,
                              current_user.status, <<>>)
            /\ UNCHANGED users
       ELSE IF user = None
       THEN /\ lastOp' = Resp("update_current_user", current_user.uid, 0,
                              HTTP_404_NOT_FOUND, <<>>)
            /\ UNCHANGED users
       ELSE IF admin_status_denied(user_update, current_user)
       THEN /\ lastOp' = Resp("update_current_user", current_user.uid, user[1],
                              HTTP_403_FORBIDDEN, <<>>)
            /\ UNCHANGED users
       ELSE IF set_fields(user_update) = {}
       THEN /\ lastOp' = Resp("update_current_user", current_user.uid, user[1],
                              HTTP_400_BAD_REQUEST, <<>>)
            /\ UNCHANGED users
       ELSE /\ users' = [users EXCEPT ![user[1]] =
                                   set_update(@, user_update_data(user_update))]
            /\ lastOp' = Resp("update_current_user", current_user.uid, user[1],
                              HTTP_200_OK, <<>>)

\* ------------------------------------------------ PUT /users/{user_id}
update_user(cred, user_id, user_update) ==
    LET current_user == get_admin_user(cred) IN
    /\ UNCHANGED <<events, progress, photos, counters, calls>>
    /\ snap' = None
    /\ IF current_user.status # HTTP_200_OK
       THEN /\ lastOp' = Resp("update_user", current_user.uid, user_id,
                              current_user.status, <<>>)
            /\ UNCHANGED users
       ELSE IF ~ObjectId_is_valid(user_id) \/ set_fields(user_update) = {}
       THEN /\ lastOp' = Resp("update_user", current_user.uid, user_id,
                              HTTP_400_BAD_REQUEST, <<>>)
            /\ UNCHANGED users
       ELSE IF user_id \notin DOMAIN users
       THEN /\ lastOp' = Resp("update_user", current_user.uid, user_id,
                              HTTP_404_NOT_FOUND, <<>>)
            /\ UNCHANGED users
       ELSE /\ users' = [users EXCEPT ![user_id] =
                                   set_update(@, user_update_data(user_update))]
            /\ lastOp' = Resp("update_user", current_user.uid, user_id, HTTP_200_OK, <<>>)

\* --------------------------------------------- DELETE /users/{user_id}
delete_user(cred, user_id) ==
    LET current_user == get_admin_user(cred) IN
    /\ UNCHANGED <<events, progress, photos, counters, calls>>
    /\ snap' = None
    /\ IF current_user.status # HTTP_200_OK
       THEN /\ lastOp' = Resp("delete_user", current_user.uid, user_id,
                              current_user.status, <<>>)
            /\ UNCHANGED users
       ELSE IF ~ObjectId_is_valid(user_id)
       THEN /\ lastOp' = Resp("delete_user", current_user.uid, user_id,
                              HTTP_400_BAD_REQUEST, <<>>)
            /\ UNCHANGED users
       ELSE IF user_id \notin DOMAIN users
       THEN /\ lastOp' = Resp("delete_user", current_user.uid, user_id,
                              HTTP_404_NOT_FOUND, <<>>)
            /\ UNCHANGED users
       ELSE /\ users' = delete_one(users, user_id)
            /\ lastOp' = Resp("delete_user", current_user.uid, user_id,
                              HTTP_204_NO_CONTENT, <<>>)

\* The ids a user path names: a malformed one, or an ObjectId
UserIdInputs == {0} \cup {100 + i : i \in 1..MaxUsers}

\* The bodies of PUT /users/...: the admin flag, the city, both or nothing
UserUpdates == {[is_admin |-> a, city |-> c] : a \in {None, <<TRUE>>}, c \in {None, <<1>>}}

\* The bodies POST /users/register and POST /users/ accept, of an identity
\* with its own email: the admin flag is the one the body carries
UserBodies ==
    {[firebase_uid |-> u, email |-> TokenEmail(u), is_admin |-> a] : u \in Uids, a \in BOOLEAN}

\* The user directory: sign-up and the user endpoints.
DirectoryNext ==
    \/ \E user \in UserBodies, bib \in BibDraws : register_user(user, bib)
    \/ \E cred \in Creds, user \in UserBodies, bib \in BibDraws : create_user(cred, user, bib)
    \/ \E cred \in Creds, u \in UserUpdates : update_current_user(cred, u)
    \/ \E cred \in Creds, id \in UserIdInputs, u \in UserUpdates : update_user(cred, id, u)
    \/ \E cred \in Creds, id \in UserIdInputs : delete_user(cred, id)

DirectorySpec == Init /\ [][DirectoryNext]_vars

\* Sign-up with any email, by the form and on first authentication, and
\* the delete that frees an identity and an email again.
SignupNext ==
    \/ \E user \in RegisterBodies, bib \in BibDraws : register_user(user, bib)
    \/ \E cred \in Creds, user \in SignupBodies, bib \in BibDraws : create_user(cred, user, bib)
    \/ \E cred \in Creds, id \in UserIdInputs : delete_user(cred, id)

SignupSpec == Init /\ [][SignupNext]_vars

\* Every handler that reads or writes events, progress entries or users,
\* started when every identity has signed up.
FrameInit ==
    /\ users = SignedUp
    /\ events = <<>>
    /\ progress = <<>>
    /\ photos = <<>>
    /\ nextUser = NumUids
    /\ nextEvent = 0
    /\ nextProgress = 0
    /\ nextPhoto = 0
    /\ calls = <<>>
    /\ lastOp = Resp("register_user", 0, NumUids, HTTP_201_CREATED, <<100 + NumUids>>)
    /\ snap = None

\* The event a path of this specification names: a malformed id, or the
\* first event created
FirstEventInputs == {0, 200 + 1}

\* The body of PUT /users/... that carries a city and nothing else
CityUpdates == {u \in UserUpdates : u.city # None /\ u.is_admin = None}

FrameNext ==
    \/ \E cred \in Creds, td \in TargetDistances : create_event(cred, td)
    \/ \E cred \in Creds, e \in FirstEventInputs, u \in EventUpdates : update_event(cred, e, u)
    \/ \E cred \in Creds, e \in FirstEventInputs : delete_event(cred, e)
    \/ \E cred \in Creds, e \in FirstEventInputs : register_for_event(cred, e)
    \/ \E cred \in Creds, e \in FirstEventInputs : unregister_from_event(cred, e)
    \/ \E cred \in Creds : get_user_registered_events(cred)
    \/ \E cred \in Creds, e \in FirstEventInputs, p \in ProgressBodies :
          create_progress(cred, e, p.distance, p.time)
    \/ \E cred \in Creds, p \in ProgressIdInputs, u \in ProgressUpdates :
          update_progress(cred, p, u)
    \/ \E cred \in Creds, p \in ProgressIdInputs : delete_progress(cred, p)
    \/ \E cred \in Creds, e \in FirstEventInputs : get_event_leaderboard(cred, e)
    \/ \E cred \in Creds, u \in CityUpdates : update_current_user(cred, u)
    \/ \E cred \in Creds, id \in UserIdInputs, u \in CityUpdates : update_user(cred, id, u)

FrameSpec == FrameInit /\ [][FrameNext]_vars

\* Deletion and what refers to the deleted record: sign-up, events, the
\* registration for them, and the two deletes.
DeletionNext ==
    \/ \E user \in SignupBodies, bib \in BibDraws : register_user(user, bib)
    \/ \E cred \in Creds, td \in TargetDistances : create_event(cred, td)
    \/ \E cred \in Creds, e \in EventIdInputs : register_for_event(cred, e)
    \/ \E cred \in Creds, id \in UserIdInputs : delete_user(cred, id)
    \/ \E cred \in Creds, e \in EventIdInputs : delete_event(cred, e)

DeletionSpec == Init /\ [][DeletionNext]_vars
\* ================================================================ claims
Participants(e) == Range(events[e].participants)
ByMember(op) == lastOp.op = op /\ lastOp.caller \in Uids
ProfileOf(uid) == get_user_by_firebase_uid(uid)[1]

\* C1: once U has registered for E (and not unregistered since), a
\* createProgress call by U for E succeeds and adds one entry owned by U for E.
C1_RegisteredUserCanSubmitProgress ==
    (/\ ByMember("create_progress")
     /\ lastOp.arg \in DOMAIN events
     /\ lastOp.caller \in Participants(lastOp.arg))
    => /\ lastOp.status = HTTP_201_CREATED
       /\ Len(progress) >= 1
       /\ progress[Len(progress)].event_id = lastOp.arg
       /\ progress[Len(progress)].user_id = ProfileOf(lastOp.caller)

C3_ParticipantsMirrorRegisteredEvents ==
    (lastOp.op \in {"register_for_event", "unregister_from_event"}
     /\ lastOp.status = HTTP_200_OK)
    => \A id \in DOMAIN users, e \in DOMAIN events :
          (users[id].firebase_uid \in Participants(e))
          <=> (e \in Range(users[id].registered_events))

\* C4: a register call by a user already in the event's participant set ends
\* as 400 and changes no stored record.
C4_DoubleRegistrationRejected ==
    [][(/\ lastOp'.op = "register_for_event"
        /\ lastOp'.caller \in Uids
        /\ lastOp'.arg \in DOMAIN events
        /\ lastOp'.caller \in Participants(lastOp'.arg))
       => (lastOp'.status = HTTP_400_BAD_REQUEST /\ UNCHANGED db)]_vars

C4_Witness ==
    /\ ByMember("register_for_event")
    /\ lastOp.arg \in DOMAIN events
    /\ lastOp.caller \in Participants(lastOp.arg)
    /\ lastOp.status = HTTP_400_BAD_REQUEST

\* C5: a successful register followed directly by the same user's successful
\* unregister for the same event leaves the participant set and the
\* registered-events sets (and every other record) as they were before the register.
C5_RegisterThenUnregisterRestores ==
    (snap # None /\ snap[1].closed)
    => /\ events[snap[1].event_id].participants
             = snap[1].events[snap[1].event_id].participants
       /\ \A id \in DOMAIN users :
             users[id].registered_events = snap[1].users[id].registered_events
       /\ events = snap[1].events
       /\ users = snap[1].users

C5_Witness ==
    /\ snap # None
    /\ snap[1].closed
    /\ lastOp.op = "unregister_from_event"
    /\ Participants(snap[1].event_id) # {}

\* C6: unregister by a user who is not a participant ends as 400 and changes
\* nothing; unregister by a participant removes that user alone and leaves the
\* other participants, in their order, and everything else in place.
C6_UnregisterRemovesOnlyCaller ==
    [][(/\ lastOp'.op = "unregister_from_event"
        /\ lastOp'.caller \in Uids
        /\ lastOp'.arg \in DOMAIN events)
       => LET e == lastOp'.arg
              u == lastOp'.caller
              before == events[e].participants
              after == events'[e].participants
          IN  IF u \notin Range(before)
              THEN lastOp'.status = HTTP_400_BAD_REQUEST /\ UNCHANGED db
              ELSE /\ lastOp'.status = HTTP_200_OK
                   /\ u \notin Range(after)
                   /\ Len(after) = Len(before) - 1
                   /\ \A i, j \in DOMAIN before :
                         (i < j /\ before[i] # u /\ before[j] # u)
                         => \E k, l \in DOMAIN after :
                               k < l /\ after[k] = before[i] /\ after[l] = before[j]
                   /\ Range(after) = Range(before) \ {u}
                   /\ DOMAIN events' = DOMAIN events
                   /\ \A f \in DOMAIN events \ {e} : events'[f] = events[f]
                   /\ events'[e].target_distance = events[e].target_distance
                   /\ UNCHANGED <<users, progress>>]_vars

C6_Witness ==
    /\ ByMember("unregister_from_event")
    /\ lastOp.status = HTTP_200_OK
    /\ lastOp.arg \in DOMAIN events
    /\ Participants(lastOp.arg) # {}

\* C7: listForUser returns exactly the events whose participant set contains
\* the caller.
C7_ListForUserIsExact ==
    (ByMember("get_user_registered_events") /\ lastOp.status = HTTP_200_OK)
    => Range(lastOp.body)
          = {e \in DOMAIN events : lastOp.caller \in Participants(e)}

\* The ranking total of a leaderboard row of an event
RankingTotal(event, row) ==
    IF event.target_distance # None THEN row.total_distance ELSE row.total_time

LeaderboardCall ==
    ByMember("get_event_leaderboard") /\ lastOp.arg \in DOMAIN events

\* C8: the leaderboard of an event lists its rows in descending order of the
\* ranking total (distance when the event declares a target distance, else
\* time), equal totals in ascending last_update, and row i carries rank i.
C8_LeaderboardIsRanked ==
    LeaderboardCall
    => /\ lastOp.status = HTTP_200_OK
       /\ \A i, j \in DOMAIN lastOp.body :
             i < j => LET a == lastOp.body[i]
                          b == lastOp.body[j]
                          ev == events[lastOp.arg]
                      IN  \/ RankingTotal(ev, a) > RankingTotal(ev, b)
                          \/ /\ RankingTotal(ev, a) = RankingTotal(ev, b)
                             /\ a.last_update <= b.last_update
       /\ \A i \in DOMAIN lastOp.body : lastOp.body[i].rank = i

\* C9: the leaderboard of an event has one row per user owning an entry of
\* the event, whose totals are the sums over that user's entries of the event
\* (a missing value counting 0) and whose last_update is their latest creation.
C9_LeaderboardAggregates ==
    LeaderboardCall
    => /\ lastOp.status = HTTP_200_OK
       /\ LET mine(u) == {i \in DOMAIN progress :
                            progress[i].event_id = lastOp.arg /\ progress[i].user_id = u}
              owners == {progress[i].user_id : i \in match(lastOp.arg)}
          IN  /\ Len(lastOp.body) = Cardinality(owners)
              /\ {lastOp.body[i].user_id : i \in DOMAIN lastOp.body} = owners
              /\ \A i \in DOMAIN lastOp.body :
                    LET r == lastOp.body[i] IN
                    /\ r.total_distance = sum_distance(mine(r.user_id))
                    /\ r.total_time = sum_time(mine(r.user_id))
                    /\ r.last_update = Max({progress[k].created_at : k \in mine(r.user_id)})

C11_LeaderboardReflectsLedger ==
    LeaderboardCall
    => /\ lastOp.status = HTTP_200_OK
       /\ {[user_id |-> r.user_id, total_distance |-> r.total_distance,
            total_time |-> r.total_time, last_update |-> r.last_update]
              : r \in Range(lastOp.body)} = group(lastOp.arg)

\* C12: a leaderboard call for an event id with no event record ends as 404,
\* and a call for an event that exists returns a list ranked 1..N.
C12_LeaderboardNotFoundOrList ==
    (ByMember("get_event_leaderboard") /\ ObjectId_is_valid(lastOp.arg))
    => IF lastOp.arg \notin DOMAIN events
       THEN lastOp.status = HTTP_404_NOT_FOUND
       ELSE /\ lastOp.status = HTTP_200_OK
            /\ {r.rank : r \in Range(lastOp.body)} = 1..Len(lastOp.body)

\* C13: no two user records have the same participant (bib) number, also
\* when user creations run concurrently.
C13_BibNumbersAreUnique ==
    \A a, b \in DOMAIN users : a # b => users[a].bib_number # users[b].bib_number

\* C14: no two user records share an external identity reference and no two
\* share an email, also when user creations run concurrently.
C14_IdentityAndEmailAreUnique ==
    \A a, b \in DOMAIN users :
        a # b => /\ users[a].firebase_uid # users[b].firebase_uid
                 /\ users[a].email # users[b].email

EventAdminOps == {"create_event", "update_event", "delete_event"}

PhotoOps == {"create_photo", "update_photo", "delete_photo"}

\* C18: a photo create, update or delete request that does not come from an
\* authenticated admin is rejected (401 or 403) and leaves the photo
\* collection unchanged.
C18_PhotoMutationIsAdminOnly ==
    [][(/\ lastOp'.op \in PhotoOps
        /\ ~(lastOp'.caller \in Uids /\ TokenAdmin(lastOp'.caller)))
       => /\ lastOp'.status \in {HTTP_401_UNAUTHORIZED, HTTP_403_FORBIDDEN}
          /\ UNCHANGED photos]_vars

\* C20: an event's participants array holds each user id at most once, also
\* when two register calls for the same user and event both pass the
\* already-registered check before either writes.
C20_NoDuplicateParticipants ==
    \A e \in DOMAIN events :
        \A i, j \in DOMAIN events[e].participants :
            i # j => events[e].participants[i] # events[e].participants[j]

C20_Witness ==
    \E c1, c2 \in DOMAIN calls :
        /\ c1 # c2
        /\ calls[c1].op = "register_for_event" /\ calls[c2].op = "register_for_event"
        /\ calls[c1].locals = calls[c2].locals
        /\ calls[c1].status = HTTP_200_OK /\ calls[c2].status = HTTP_200_OK
        /\ calls[c1].locals.event_id \in DOMAIN events
        /\ calls[c1].locals.uid \in Participants(calls[c1].locals.event_id)

\* The collection coll without the record id, every other record as it was
Without(coll, after, id) ==
    /\ DOMAIN after = DOMAIN coll \ {id}
    /\ \A k \in DOMAIN after : after[k] = coll[k]

\* C21: delete_user and delete_event remove only the addressed record and
\* never fail because of references: an admin's delete of an existing user
\* answers 204, removes that user only and leaves every event, its
\* participants included, and every progress entry as they were; an admin's
\* delete of an existing event answers 204, removes that event only and
\* leaves every user, the registered events included, as it was.
C21_DeleteLeavesReferences ==
    [][/\ (lastOp'.op = "delete_user" /\ lastOp'.caller \in Uids
             /\ TokenAdmin(lastOp'.caller) /\ lastOp'.arg \in DOMAIN users)
          => /\ lastOp'.status = HTTP_204_NO_CONTENT
             /\ Without(users, users', lastOp'.arg)
             /\ events' = events
             /\ progress' = progress
       /\ (lastOp'.op = "delete_event" /\ lastOp'.caller \in Uids
             /\ TokenAdmin(lastOp'.caller) /\ lastOp'.arg \in DOMAIN events)
          => /\ lastOp'.status = HTTP_204_NO_CONTENT
             /\ Without(events, events', lastOp'.arg)
             /\ users' = users
             /\ progress' = progress]_vars

\* A user who is a participant of an event has just been deleted while
\* another user remains: the participant list still names the deleted one.
C21_Witness ==
    /\ lastOp.op = "delete_user"
    /\ lastOp.status = HTTP_204_NO_CONTENT
    /\ users # <<>>
    /\ \E e \in DOMAIN events : \E u \in Participants(e) :
          get_user_by_firebase_uid(u) = None

\* The request op was accepted as coming from a holder of the admin credential
ByAdmin(op) == op.caller \in Uids /\ TokenAdmin(op.caller)

\* The admin flag of every user record that the step keeps is as it was
AdminFlagsKept ==
    \A id \in DOMAIN users \cap DOMAIN users' : users'[id].is_admin = users[id].is_admin

\* C23: no update of a user by a caller without the admin credential changes
\* an admin flag: PUT /users/me from an authenticated non-admin whose body
\* carries is_admin answers 403 and leaves the users as they were, any other
\* PUT /users/me from a non-admin leaves every admin flag as it was, and
\* PUT /users/{id} from a non-admin is rejected (401 or 403) with the users
\* as they were.
C23_AdminFlagIsAdminOnly ==
    [][/\ (lastOp'.op = "update_current_user" /\ ~ByAdmin(lastOp'))
          => /\ AdminFlagsKept
             /\ lastOp'.caller \in Uids
                => \A u \in UserUpdates :
                      (u.is_admin # None /\ update_current_user(<<lastOp'.caller>>, u))
                      => (lastOp'.status = HTTP_403_FORBIDDEN /\ users' = users)
       /\ (lastOp'.op = "update_user" /\ ~ByAdmin(lastOp'))
          => /\ lastOp'.status \in {HTTP_401_UNAUTHORIZED, HTTP_403_FORBIDDEN}
             /\ users' = users]_vars

\* A non-admin with a profile has just been refused on PUT /users/me
C23_Witness ==
    /\ lastOp.op = "update_current_user"
    /\ lastOp.status = HTTP_403_FORBIDDEN
    /\ lastOp.caller \in Uids
    /\ ~TokenAdmin(lastOp.caller)
    /\ get_user_by_firebase_uid(lastOp.caller) # None

\* The identity uid has no profile / the email is held by a profile of
\* another identity than uid
NoProfile(uid) == \A id \in DOMAIN users : users[id].firebase_uid # uid
EmailTaken(uid, email) ==
    \E id \in DOMAIN users : users[id].email = email /\ users[id].firebase_uid # uid

\* C24: a request with a valid credential of an identity that has no profile
\* yet, and whose email no profile holds, is authenticated, and after it a
\* profile of that identity exists with a bib number and no registered events.
C24_FirstAuthenticationCreatesProfile ==
    [][\A u \in Uids :
          (lastOp'.caller \in {u, 0 - u} /\ NoProfile(u) /\ ~EmailTaken(u, TokenEmail(u)))
          => /\ lastOp'.caller = u
             /\ \E id \in DOMAIN users' :
                   /\ users'[id].firebase_uid = u
                   /\ users'[id].bib_number \in BibNumbers
                   /\ users'[id].registered_events = <<>>]_vars

C26_BibAllocationTerminates ==
    \A c \in 1..NumCalls :
        (c \in DOMAIN calls /\ calls[c].pc = "generate_unique_bib_number")
        ~> (c \in DOMAIN calls /\ calls[c].pc # "generate_unique_bib_number")

\* C27: the participants of an event change only by a register or an
\* unregister for that event, an event disappears only by its delete_event,
\* and an event appears only by create_event, with no participants.
C27_ParticipantsFrame ==
    [][/\ \A e \in DOMAIN events \cap DOMAIN events' :
             events'[e].participants # events[e].participants
             => /\ lastOp'.op \in {"register_for_event", "unregister_from_event"}
                /\ lastOp'.arg = e
       /\ \A e \in DOMAIN events \ DOMAIN events' :
             lastOp'.op = "delete_event" /\ lastOp'.arg = e
       /\ \A e \in DOMAIN events' \ DOMAIN events :
             lastOp'.op = "create_event" /\ events'[e].participants = <<>>]_vars

\* An event that has participants has just been updated
C27_Witness ==
    /\ lastOp.op = "update_event"
    /\ lastOp.status = HTTP_200_OK
    /\ lastOp.arg \in DOMAIN events
    /\ events[lastOp.arg].participants # <<>>
    /\ events[lastOp.arg].target_distance = <<20>>

\* The request c is a call of op by uid for event_id
CallOf(c, op, uid, event_id) ==
    /\ calls[c].op = op
    /\ calls[c].locals.uid = uid
    /\ calls[c].locals.event_id = event_id

\* C28: of the register calls of one user for one event, at most one answers
\* 200 as long as that user has sent no unregister for the event: two
\* concurrent calls never both report success.
C28_AtMostOneRegisterSucceeds ==
    \A c1 \in DOMAIN calls, c2 \in DOMAIN calls :
        (/\ c1 # c2
         /\ CallOf(c1, "register_for_event", calls[c1].locals.uid, calls[c1].locals.event_id)
         /\ CallOf(c2, "register_for_event", calls[c1].locals.uid, calls[c1].locals.event_id)
         /\ calls[c1].status = HTTP_200_OK
         /\ calls[c2].status = HTTP_200_OK)
        => \E c \in DOMAIN calls :
              CallOf(c, "unregister_from_event", calls[c1].locals.uid, calls[c1].locals.event_id)

\* C30: a stored user record gets the admin flag, at its creation or by an
\* update, only in a request made with the admin credential.
C30_AdminFlagNeedsAdminCredential ==
    [][\A id \in DOMAIN users' :
          (users'[id].is_admin /\ (id \notin DOMAIN users \/ ~users[id].is_admin))
          => ByAdmin(lastOp')]_vars
====
